---------------------------- MODULE Spec2Model ----------------------------
(* Teltonika Codec 8 TCP server: the frame codec (teltonika.ts), the       *)
(* persistence layer (db.ts) and the per-connection "data" handler          *)
(* (server.ts).  A Buffer is a sequence of bytes; buffer offsets are        *)
(* 0-based as in the source, so the byte at offset o is buf[o + 1].         *)
EXTENDS Integers, Sequences, FiniteSets, TLC

\* ------------------------------------------------------------------ bounds
\* Connections accepted by the server.
NumConns == 2
\* "data" events delivered over all connections.
MaxChunks == 3

\* ------------------------------------------------------------ Buffer reads
NULL == <<>>

\* Node's Buffer read methods raise ERR_OUT_OF_RANGE when the read does not
\* fit in the buffer; InBounds is the condition under which they return.
InBounds(buf, offset, width) == offset >= 0 /\ offset + width <= Len(buf)

readUInt8(buf, offset) == buf[offset + 1]

readUInt16BE(buf, offset) == buf[offset + 1] * 256 + buf[offset + 2]

\* Two's complement, 16 and 32 bits, big-endian.
readInt16BE(buf, offset) ==
  LET u == readUInt16BE(buf, offset) IN IF u >= 32768 THEN u - 65536 ELSE u

readInt32BE(buf, offset) ==
  LET b0 == buf[offset + 1]
      hi == IF b0 >= 128 THEN b0 - 256 ELSE b0
  IN  hi * 16777216 + buf[offset + 2] * 65536 + buf[offset + 3] * 256 + buf[offset + 4]

\* ---------------------------------------------------------- parseImeiPacket
\* buf.subarray(2, 2 + len).toString("ascii"): "ascii" decoding clears the top
\* bit of every byte.  The string is kept as its sequence of character codes.
asciiSlice(buf, start, end) == [i \in 1..(end - start) |-> buf[start + i] % 128]

\* /^\d{15,17}$/
isImeiDigits(s) == Len(s) >= 15 /\ Len(s) <= 17 /\ \A i \in 1..Len(s) : s[i] >= 48 /\ s[i] <= 57

parseImeiPacket(buf) ==
  IF Len(buf) < 2 THEN NULL
  ELSE LET len == readUInt16BE(buf, 0) IN
       IF Len(buf) < 2 + len THEN NULL
       ELSE LET imei == asciiSlice(buf, 2, 2 + len) IN
            IF ~isImeiDigits(imei) THEN NULL ELSE imei

\* ------------------------------------------------------------------ buildAck
\* Mutant: the count is written little-endian (writeUInt32LE).
buildAck_littleEndian(recordCount) ==
  << recordCount % 256, (recordCount \div 256) % 256,
     (recordCount \div 65536) % 256, (recordCount \div 16777216) % 256 >>

\* Buffer.alloc(4) then writeUInt32BE(recordCount, 0).
buildAck(recordCount) ==
  << (recordCount \div 16777216) % 256, (recordCount \div 65536) % 256,
     (recordCount \div 256) % 256, recordCount % 256 >>

\* ------------------------------------------------------------ IO trailers
\* A skip returns the offset after the trailer, or THROWN when one of its
\* reads raised.
THROWN == -1

\* Mutant: the 4-byte group is skipped without its 1-byte identifiers.
skipCodec8Io_noIdByte(buf, offset) ==
  LET o1 == offset + 2 IN
  IF ~InBounds(buf, o1, 1) THEN THROWN ELSE
  LET o2 == o1 + 1 + readUInt8(buf, o1) * 2 IN
  IF ~InBounds(buf, o2, 1) THEN THROWN ELSE
  LET o4 == o2 + 1 + readUInt8(buf, o2) * 3 IN
  IF ~InBounds(buf, o4, 1) THEN THROWN ELSE
  LET o8 == o4 + 1 + readUInt8(buf, o4) * 4 IN
  IF ~InBounds(buf, o8, 1) THEN THROWN ELSE
  o8 + 1 + readUInt8(buf, o8) * 9

skipCodec8Io(buf, offset) ==
  LET o1 == offset + 2 IN
  IF ~InBounds(buf, o1, 1) THEN THROWN ELSE
  LET o2 == o1 + 1 + readUInt8(buf, o1) * 2 IN
  IF ~InBounds(buf, o2, 1) THEN THROWN ELSE
  LET o4 == o2 + 1 + readUInt8(buf, o2) * 3 IN
  IF ~InBounds(buf, o4, 1) THEN THROWN ELSE
  LET o8 == o4 + 1 + readUInt8(buf, o4) * 5 IN
  IF ~InBounds(buf, o8, 1) THEN THROWN ELSE
  o8 + 1 + readUInt8(buf, o8) * 9

\* The loop over the variable-length IOs of a Codec 8 Extended trailer.
RECURSIVE skipVariableIo(_, _, _, _)
skipVariableIo(buf, offset, i, nx) ==
  IF i >= nx THEN offset
  ELSE IF ~InBounds(buf, offset + 2, 2) THEN THROWN
  ELSE skipVariableIo(buf, offset + 4 + readUInt16BE(buf, offset + 2), i + 1, nx)

skipCodec8ExtendedIo(buf, offset) ==
  LET o1 == offset + 4 IN
  IF ~InBounds(buf, o1, 2) THEN THROWN ELSE
  LET o2 == o1 + 2 + readUInt16BE(buf, o1) * 3 IN
  IF ~InBounds(buf, o2, 2) THEN THROWN ELSE
  LET o4 == o2 + 2 + readUInt16BE(buf, o2) * 4 IN
  IF ~InBounds(buf, o4, 2) THEN THROWN ELSE
  LET o8 == o4 + 2 + readUInt16BE(buf, o4) * 6 IN
  IF ~InBounds(buf, o8, 2) THEN THROWN ELSE
  LET ox == o8 + 2 + readUInt16BE(buf, o8) * 10 IN
  IF ~InBounds(buf, ox, 2) THEN THROWN ELSE
  skipVariableIo(buf, ox + 2, 0, readUInt16BE(buf, ox))

\* ------------------------------------------------------------ parseAvlPacket
\* The fixed fields of one record at offset.  The 64-bit timestamp is kept as
\* its four big-endian 16-bit words; longitude and latitude are kept as the
\* raw fixed-point integers (degrees x 1e7).
AvlRecord(buf, offset) ==
  [ timestamp  |-> << readUInt16BE(buf, offset), readUInt16BE(buf, offset + 2),
                      readUInt16BE(buf, offset + 4), readUInt16BE(buf, offset + 6) >>,
    priority   |-> readUInt8(buf, offset + 8),
    longitude  |-> readInt32BE(buf, offset + 9),
    latitude   |-> readInt32BE(buf, offset + 13),
    altitude   |-> readInt16BE(buf, offset + 17),
    angle      |-> readUInt16BE(buf, offset + 19),
    satellites |-> readUInt8(buf, offset + 21),
    speed      |-> readUInt16BE(buf, offset + 22) ]

\* The record loop: result is [threw, records].
RECURSIVE parseAvlLoop(_, _, _, _, _, _)
parseAvlLoop(buf, codecId, numRecords, i, offset, records) ==
  IF i >= numRecords \/ offset + 24 > Len(buf)
  THEN [threw |-> FALSE, records |-> records]
  ELSE LET recs == Append(records, AvlRecord(buf, offset))
           next == IF codecId = 142 THEN skipCodec8ExtendedIo(buf, offset + 24)
                                    ELSE skipCodec8Io(buf, offset + 24)
       IN  IF next = THROWN THEN [threw |-> TRUE, records |-> recs]
           ELSE parseAvlLoop(buf, codecId, numRecords, i + 1, next, recs)

\* Mutant: the loop runs to the end of the buffer, whatever count is declared.
parseAvlPacket_untilEnd(buf) ==
  IF Len(buf) < 10 THEN [threw |-> FALSE, records |-> <<>>]
  ELSE LET codecId == readUInt8(buf, 8) IN
       IF codecId # 8 /\ codecId # 142 THEN [threw |-> FALSE, records |-> <<>>]
       ELSE parseAvlLoop(buf, codecId, 255, 0, 10, <<>>)

\* Mutant: an unsupported codec id raises instead of returning no record.
parseAvlPacket_unsupportedThrows(buf) ==
  IF Len(buf) < 10 THEN [threw |-> FALSE, records |-> <<>>]
  ELSE LET codecId == readUInt8(buf, 8) IN
       IF codecId # 8 /\ codecId # 142 THEN [threw |-> TRUE, records |-> <<>>]
       ELSE parseAvlLoop(buf, codecId, readUInt8(buf, 9), 0, 10, <<>>)

parseAvlPacket(buf) ==
  IF Len(buf) < 10 THEN [threw |-> FALSE, records |-> <<>>]
  ELSE LET codecId == readUInt8(buf, 8) IN
       IF codecId # 8 /\ codecId # 142 THEN [threw |-> FALSE, records |-> <<>>]
       ELSE parseAvlLoop(buf, codecId, readUInt8(buf, 9), 0, 10, <<>>)

\* ------------------------------------------------------ extractAvlRecordCount
\* Mutant: the number of records that decoded, not the declared count.
extractAvlRecordCount_decoded(buf) == Len(parseAvlPacket(buf).records)

extractAvlRecordCount(buf) == IF Len(buf) < 10 THEN 0 ELSE readUInt8(buf, 9)

\* buf.toString("hex"): two hex digits (values 0..15) per byte.
toHex(buf) ==
  [i \in 1..(2 * Len(buf)) |-> IF i % 2 = 1 THEN buf[(i + 1) \div 2] \div 16
                                            ELSE buf[i \div 2] % 16]

\* Buffer.from(hex, "hex").
fromHex(hex) == [i \in 1..(Len(hex) \div 2) |-> hex[2 * i - 1] * 16 + hex[2 * i]]

\* --------------------------------------------------------------- the server
Conns == 1..NumConns

\* Chunks a device may send.  ImeiA and ImeiB are well-formed identity frames
\* (15 and 16 digits), OneByte is a 1-byte chunk.
ImeiA == <<0, 15, 51, 53, 54, 51, 48, 55, 48, 52, 54, 52, 53, 50, 48, 49, 51>>
ImeiB == <<0, 16, 51, 53, 54, 51, 48, 55, 48, 52, 54, 52, 53, 50, 48, 49, 51, 53>>
OneByte == <<0>>

\* The header and the one record of the Codec 8 sample packet of the Teltonika
\* documentation (AVL_SAMPLE_HEX), with an IO trailer that declares no element:
\* a complete one-record Codec 8 frame.
AvlOne ==
  <<0, 0, 0, 0, 0, 0, 0, 54, 8, 1,
    0, 0, 1, 107, 64, 216, 234, 48, 1, 0, 0, 0, 0, 0, 0, 0, 0, 0, 0, 0, 0, 0, 0, 0,
    1, 0, 0, 0, 0, 0>>

\* The same bytes declaring two records, and the frame cut inside its trailer.
AvlDeclaresTwo == [AvlOne EXCEPT ![10] = 2]
AvlCutInTrailer == SubSeq(AvlOne, 1, 37)

\* The chunks a device sends, and their numbers.  As data, ImeiA and ImeiB are
\* frames with an unsupported codec id (byte 8 is a digit) and OneByte is a
\* frame shorter than its header.
Frames == <<ImeiA, ImeiB, OneByte, AvlOne, AvlDeclaresTwo, AvlCutInTrailer>>
Chunks == 1..Len(Frames)

\* What the codec returns for each chunk, computed once per chunk.
imeiOf == [chunk \in Chunks |-> parseImeiPacket(Frames[chunk])]
recordCountOf == [chunk \in Chunks |-> extractAvlRecordCount(Frames[chunk])]
avlOf == [chunk \in Chunks |-> parseAvlPacket(Frames[chunk])]
hexOf == [chunk \in Chunks |-> toHex(Frames[chunk])]

VARIABLES
  imei,                 \* state.imei of each connection, NULL for null
  imeiAccepted,         \* state.imeiAccepted of each connection
  destroyed,            \* socket.destroy() was called on the connection
  out,                  \* what each socket wrote to the transport, in order
  handlers,             \* per connection, one invocation of the "data" handler
                        \* per data event, in order of arrival
  tracker_devices,      \* table tracker_devices: the imei column
  tracker_packets_raw,  \* table tracker_packets_raw, row id = index
  tracker_positions,    \* table tracker_positions, in insertion order
  input,                \* the argument of a direct call of the codec
  returned,             \* what the codec's functions returned for input
  reprocessRun          \* a run of the reprocess script: where it is, the rows it fetched

vars == <<imei, imeiAccepted, destroyed, out, handlers,
          tracker_devices, tracker_packets_raw, tracker_positions, input, returned,
          reprocessRun>>

\* No direct call of the codec is made while the server runs.
NoInput == [kind |-> "none"]
NoResult == <<>>

\* The server after construction: no connection has delivered a chunk.
Listening ==
  /\ imei = [c \in Conns |-> NULL]
  /\ imeiAccepted = [c \in Conns |-> FALSE]
  /\ destroyed = [c \in Conns |-> FALSE]
  /\ out = [c \in Conns |-> <<>>]
  /\ handlers = [c \in Conns |-> <<>>]
  /\ tracker_devices = {}
  /\ tracker_packets_raw = <<>>
  /\ tracker_positions = <<>>

\* The reprocess script is not running; runs counts its finished runs.
NotRunning(runs) == [pc |-> "idle", rows |-> <<>>, at |-> 0, runs |-> runs]

Init == Listening /\ input = NoInput /\ returned = NoResult /\ reprocessRun = NotRunning(0)

\* A handler invocation is named <<c, i>>: the i-th data event of connection c.
H(h) == handlers[h[1]][h[2]]

RECURSIVE dataEventsUpTo(_)
dataEventsUpTo(c) == IF c = 0 THEN 0 ELSE Len(handlers[c]) + dataEventsUpTo(c - 1)
DataEvents == dataEventsUpTo(NumConns)

\* socket.write(bytes) by handler <<c, i>>: a destroyed net.Socket writes nothing.
socketWrite(c, i, bytes) ==
  out' = IF destroyed[c] THEN out
         ELSE [out EXCEPT ![c] = Append(@, [h |-> i, bytes |-> bytes])]

socketDestroy(c) == destroyed' = [destroyed EXCEPT ![c] = TRUE]

\* An invocation of the handler: the number of its chunk (buf is Frames[chunk]),
\* the await it is suspended at ("done" once it returned), the id
\* saveRawPacket returned (0 before), how it ended, and what it did on the way.
newHandler(chunk, pc, outcome) ==
  [ chunk |-> chunk, pc |-> pc, rawPacketId |-> 0, outcome |-> outcome,
    decoded |-> FALSE, savePositionsCalled |-> FALSE, destroyRequested |-> FALSE ]

\* The handler's return.
finish(h, outcome) ==
  handlers' = [handlers EXCEPT ![h[1]][h[2]].pc = "done", ![h[1]][h[2]].outcome = outcome]

\* Mutant: a catch block that only logs.
catchError_noDestroy(h, outcome) ==
  /\ handlers' = [handlers EXCEPT ![h[1]][h[2]].pc = "done",
                                  ![h[1]][h[2]].outcome = outcome]
  /\ UNCHANGED destroyed

\* The handler's catch block.
catchError(h, outcome) ==
  /\ handlers' = [handlers EXCEPT ![h[1]][h[2]].pc = "done",
                                  ![h[1]][h[2]].outcome = outcome,
                                  ![h[1]][h[2]].destroyRequested = TRUE]
  /\ socketDestroy(h[1])

\* Mutant: imeiAccepted is set before the identity frame is validated.
HandshakePhase_acceptFirst(c, chunk) ==
  LET parsed == imeiOf[chunk] IN
  /\ imeiAccepted' = [imeiAccepted EXCEPT ![c] = TRUE]
  /\ IF parsed = NULL
     THEN /\ socketWrite(c, Len(handlers[c]) + 1, <<0>>)
          /\ socketDestroy(c)
          /\ handlers' = [handlers EXCEPT ![c] = Append(@,
                [newHandler(chunk, "done", "rejected") EXCEPT !.destroyRequested = TRUE])]
          /\ UNCHANGED imei
     ELSE /\ imei' = [imei EXCEPT ![c] = parsed]
          /\ handlers' = [handlers EXCEPT ![c] = Append(@, newHandler(chunk, "upsertDevice", "pending"))]
          /\ UNCHANGED <<out, destroyed>>

\* Mutant: the reject branch writes 0x00 and returns without socket.destroy().
HandshakePhase_rejectKeepsOpen(c, chunk) ==
  LET parsed == imeiOf[chunk] IN
  IF parsed = NULL
  THEN /\ socketWrite(c, Len(handlers[c]) + 1, <<0>>)
       /\ handlers' = [handlers EXCEPT ![c] = Append(@, newHandler(chunk, "done", "rejected"))]
       /\ UNCHANGED <<imei, imeiAccepted, destroyed>>
  ELSE /\ imei' = [imei EXCEPT ![c] = parsed]
       /\ imeiAccepted' = [imeiAccepted EXCEPT ![c] = TRUE]
       /\ handlers' = [handlers EXCEPT ![c] = Append(@, newHandler(chunk, "upsertDevice", "pending"))]
       /\ UNCHANGED <<out, destroyed>>

\* Phase 1 of the handler, up to its first await or its return.
HandshakePhase(c, chunk) ==
  LET parsed == imeiOf[chunk] IN
  IF parsed = NULL
  THEN /\ socketWrite(c, Len(handlers[c]) + 1, <<0>>)
       /\ socketDestroy(c)
       /\ handlers' = [handlers EXCEPT ![c] = Append(@,
             [newHandler(chunk, "done", "rejected") EXCEPT !.destroyRequested = TRUE])]
       /\ UNCHANGED <<imei, imeiAccepted>>
  ELSE /\ imei' = [imei EXCEPT ![c] = parsed]
       /\ imeiAccepted' = [imeiAccepted EXCEPT ![c] = TRUE]
       /\ handlers' = [handlers EXCEPT ![c] = Append(@, newHandler(chunk, "upsertDevice", "pending"))]
       /\ UNCHANGED <<out, destroyed>>

\* Mutant: the acknowledgement is written before saveRawPacket is awaited.
StreamingPhase_ackFirst(c, chunk) ==
  /\ socketWrite(c, Len(handlers[c]) + 1, buildAck(recordCountOf[chunk]))
  /\ handlers' = [handlers EXCEPT ![c] = Append(@, newHandler(chunk, "saveRawPacket", "pending"))]
  /\ UNCHANGED <<imei, imeiAccepted, destroyed>>

\* Phase 2 of the handler, up to its first await or its return.
StreamingPhase(c, chunk) ==
  IF imei[c] = NULL
  THEN /\ socketDestroy(c)
       /\ handlers' = [handlers EXCEPT ![c] = Append(@,
             [newHandler(chunk, "done", "noImei") EXCEPT !.destroyRequested = TRUE])]
       /\ UNCHANGED <<imei, imeiAccepted, out>>
  ELSE /\ handlers' = [handlers EXCEPT ![c] = Append(@, newHandler(chunk, "saveRawPacket", "pending"))]
       /\ UNCHANGED <<imei, imeiAccepted, out, destroyed>>

\* Mutant: an identity frame restarts the handshake on a streaming connection.
inHandshake_onIdentityFrame(c, chunk) == ~imeiAccepted[c] \/ imeiOf[chunk] # NULL

\* The test of line 22 that selects the phase.
inHandshake(c, chunk) == ~imeiAccepted[c]

\* A "data" event on connection c: a destroyed socket emits none.  Connections
\* are numbered in the order of their first data event.
Data(c, chunk) ==
  /\ ~destroyed[c]
  /\ IF c = 1 THEN TRUE ELSE Len(handlers[c - 1]) > 0
  /\ DataEvents < MaxChunks
  /\ IF inHandshake(c, chunk) THEN HandshakePhase(c, chunk) ELSE StreamingPhase(c, chunk)
  /\ UNCHANGED <<tracker_devices, tracker_packets_raw, tracker_positions, input, returned,
                 reprocessRun>>

\* ------------------------------------------------------------------- db.ts
\* r.timestamp.toISOString() raises RangeError for an invalid Date: new
\* Date(ms) is invalid when ms exceeds 8.64e15 = 0x001E B208 C2DC 0000.
MaxDateWords == <<30, 45576, 49884, 0>>

RECURSIVE wordsLeq(_, _, _)
wordsLeq(a, b, i) ==
  IF i > Len(a) THEN TRUE
  ELSE IF a[i] # b[i] THEN a[i] < b[i]
  ELSE wordsLeq(a, b, i + 1)

toISOStringThrows(timestamp) == ~wordsLeq(timestamp, MaxDateWords, 1)

\* The rows savePositions builds from the records.
positionRows(id, records, rawPacketId) ==
  [i \in 1..Len(records) |->
     [ imei |-> id, gps_time |-> records[i].timestamp,
       latitude |-> records[i].latitude, longitude |-> records[i].longitude,
       speed |-> records[i].speed, angle |-> records[i].angle,
       satellites |-> records[i].satellites, altitude |-> records[i].altitude,
       priority |-> records[i].priority, raw_packet_id |-> rawPacketId ]]

\* The row saveRawPacket inserts; parsed is false until savePositions marks it.
\* The row keeps the number of the chunk it stores: its columns packet_hex
\* and packet_len are packet_hex(row) and packet_len(row).
rawPacketRow(id, remoteIp, chunk) ==
  [ imei |-> id, remote_ip |-> remoteIp, chunk |-> chunk, parsed |-> FALSE ]

packet_hex(row) == hexOf[row.chunk]
packet_len(row) == Len(Frames[row.chunk])

\* ------------------------------------------------- the handler's awaits
\* await upsertDevice(imei) returns: the accept byte is written.
upsertDeviceOk(h) ==
  /\ H(h).pc = "upsertDevice"
  /\ tracker_devices' = tracker_devices \cup {imeiOf[H(h).chunk]}
  /\ socketWrite(h[1], h[2], <<1>>)
  /\ finish(h, "accepted")
  /\ UNCHANGED <<input, returned, reprocessRun, imei, imeiAccepted, destroyed, tracker_packets_raw, tracker_positions>>

\* await upsertDevice(imei) throws: the catch block destroys the socket.
upsertDeviceFail(h) ==
  /\ H(h).pc = "upsertDevice"
  /\ catchError(h, "upsertDeviceFailed")
  /\ UNCHANGED <<input, returned, reprocessRun, imei, imeiAccepted, out, tracker_devices, tracker_packets_raw,
                 tracker_positions>>

\* Lines 50-57 of the handler, run once saveRawPacket returned rawPacketId:
\* the acknowledgement, the decoding, and savePositions up to its first await.
afterRawSaved(h, rawPacketId) ==
  LET c == h[1]
      i == h[2]
      recordCount == recordCountOf[H(h).chunk]
      result == avlOf[H(h).chunk]
      saved == [handlers EXCEPT ![c][i].rawPacketId = rawPacketId, ![c][i].decoded = TRUE]
  IN
  /\ socketWrite(c, h[2], buildAck(recordCount))
  /\ IF result.threw
     THEN /\ handlers' = [saved EXCEPT ![c][i].pc = "done", ![c][i].outcome = "parseThrew",
                                       ![c][i].destroyRequested = TRUE]
          /\ socketDestroy(c)
     ELSE IF Len(result.records) = 0
     THEN /\ handlers' = [saved EXCEPT ![c][i].pc = "done", ![c][i].outcome = "noRecords",
                                       ![c][i].savePositionsCalled = TRUE]
          /\ UNCHANGED destroyed
     ELSE IF \E r \in 1..Len(result.records) : toISOStringThrows(result.records[r].timestamp)
     THEN /\ handlers' = [saved EXCEPT ![c][i].pc = "done", ![c][i].outcome = "savePositionsFailed",
                                       ![c][i].savePositionsCalled = TRUE,
                                       ![c][i].destroyRequested = TRUE]
          /\ socketDestroy(c)
     ELSE /\ handlers' = [saved EXCEPT ![c][i].pc = "insertPositions",
                                       ![c][i].savePositionsCalled = TRUE]
          /\ UNCHANGED destroyed

\* await saveRawPacket(state.imei, remote, buf) returns the new row's id.
saveRawPacketOk(h) ==
  /\ H(h).pc = "saveRawPacket"
  /\ tracker_packets_raw' = Append(tracker_packets_raw,
        rawPacketRow(imei[h[1]], h[1], H(h).chunk))
  /\ afterRawSaved(h, Len(tracker_packets_raw) + 1)
  /\ UNCHANGED <<input, returned, reprocessRun, imei, imeiAccepted, tracker_devices, tracker_positions>>

\* await saveRawPacket(...) throws.
saveRawPacketFail(h) ==
  /\ H(h).pc = "saveRawPacket"
  /\ catchError(h, "saveRawPacketFailed")
  /\ UNCHANGED <<input, returned, reprocessRun, imei, imeiAccepted, out, tracker_devices, tracker_packets_raw,
                 tracker_positions>>

\* Mutant: the rows are attributed to the raw packet stored last.
insertPositionsOk_latestHandle(h) ==
  /\ H(h).pc = "insertPositions"
  /\ tracker_positions' = tracker_positions \o
        positionRows(imei[h[1]], avlOf[H(h).chunk].records, Len(tracker_packets_raw))
  /\ handlers' = [handlers EXCEPT ![h[1]][h[2]].pc = "markParsed"]
  /\ UNCHANGED <<input, returned, reprocessRun, imei, imeiAccepted, destroyed, out, tracker_devices,
                 tracker_packets_raw>>

\* savePositions: the insert into tracker_positions returns without error.
insertPositionsOk(h) ==
  /\ H(h).pc = "insertPositions"
  /\ tracker_positions' = tracker_positions \o
        positionRows(imei[h[1]], avlOf[H(h).chunk].records,
                     H(h).rawPacketId)
  /\ handlers' = [handlers EXCEPT ![h[1]][h[2]].pc = "markParsed"]
  /\ UNCHANGED <<input, returned, reprocessRun, imei, imeiAccepted, destroyed, out, tracker_devices, tracker_packets_raw>>

\* savePositions: the insert returns posError; savePositions throws.
insertPositionsFail(h) ==
  /\ H(h).pc = "insertPositions"
  /\ catchError(h, "savePositionsFailed")
  /\ UNCHANGED <<input, returned, reprocessRun, imei, imeiAccepted, out, tracker_devices, tracker_packets_raw,
                 tracker_positions>>

\* savePositions: the update of parsed returns without error.
markParsedOk(h) ==
  /\ H(h).pc = "markParsed"
  /\ tracker_packets_raw' = [tracker_packets_raw EXCEPT ![H(h).rawPacketId].parsed = TRUE]
  /\ finish(h, "saved")
  /\ UNCHANGED <<input, returned, reprocessRun, imei, imeiAccepted, destroyed, out, tracker_devices, tracker_positions>>

\* savePositions: the update returns markError; savePositions throws.
markParsedFail(h) ==
  /\ H(h).pc = "markParsed"
  /\ catchError(h, "savePositionsFailed")
  /\ UNCHANGED <<input, returned, reprocessRun, imei, imeiAccepted, out, tracker_devices, tracker_packets_raw,
                 tracker_positions>>

Next ==
  \/ \E c \in Conns, chunk \in Chunks : Data(c, chunk)
  \/ \E c \in Conns : \E i \in DOMAIN handlers[c] : upsertDeviceOk(<<c, i>>)
  \/ \E c \in Conns : \E i \in DOMAIN handlers[c] : upsertDeviceFail(<<c, i>>)
  \/ \E c \in Conns : \E i \in DOMAIN handlers[c] : saveRawPacketOk(<<c, i>>)
  \/ \E c \in Conns : \E i \in DOMAIN handlers[c] : saveRawPacketFail(<<c, i>>)
  \/ \E c \in Conns : \E i \in DOMAIN handlers[c] : insertPositionsOk(<<c, i>>)
  \/ \E c \in Conns : \E i \in DOMAIN handlers[c] : insertPositionsFail(<<c, i>>)
  \/ \E c \in Conns : \E i \in DOMAIN handlers[c] : markParsedOk(<<c, i>>)
  \/ \E c \in Conns : \E i \in DOMAIN handlers[c] : markParsedFail(<<c, i>>)

Spec == Init /\ [][Next]_vars

\* A collaborator call of the i-th handler of connection c returns, with or
\* without an error.
returns(c, i) ==
  /\ i \in DOMAIN handlers[c]
  /\ \/ upsertDeviceOk(<<c, i>>)
     \/ upsertDeviceFail(<<c, i>>)
     \/ saveRawPacketOk(<<c, i>>)
     \/ saveRawPacketFail(<<c, i>>)
     \/ insertPositionsOk(<<c, i>>)
     \/ insertPositionsFail(<<c, i>>)
     \/ markParsedOk(<<c, i>>)
     \/ markParsedFail(<<c, i>>)

\* The server with collaborators whose calls all return eventually.
LiveSpec == Spec /\ \A c \in Conns : \A i \in 1..MaxChunks : WF_vars(returns(c, i))

\* ------------------------------------------------------------ reprocess.ts
\* Runs of the reprocess script, one after the other.
MaxRuns == 2

\* parseAvlPacket(Buffer.from(row.packet_hex, "hex")) for the row of each chunk.
reparsedOf == [chunk \in Chunks |-> parseAvlPacket(fromHex(hexOf[chunk]))]

\* select id, imei, packet_hex where parsed = false, order by id ascending:
\* the ids of the rows among the first n.
RECURSIVE selectUnparsed(_)
selectUnparsed(n) ==
  IF n = 0 THEN <<>>
  ELSE IF tracker_packets_raw[n].parsed THEN selectUnparsed(n - 1)
  ELSE Append(selectUnparsed(n - 1), n)

\* The body of the loop, for the fetched row id, reaches the insert of
\* savePositions: decoding did not raise, there are records, and toISOString
\* did not raise.  Otherwise the loop goes on with the next row.
reachesInsert(id) ==
  LET decoded == reparsedOf[tracker_packets_raw[id].chunk] IN
  /\ ~decoded.threw
  /\ Len(decoded.records) > 0
  /\ \A r \in 1..Len(decoded.records) : ~toISOStringThrows(decoded.records[r].timestamp)

RECURSIVE nextInsert(_, _)
nextInsert(rows, k) ==
  IF k > Len(rows) THEN 0
  ELSE IF reachesInsert(rows[k]) THEN k
  ELSE nextInsert(rows, k + 1)

\* The loop from the k-th fetched row on, up to its next await or to the end
\* of the run.
reprocessLoop(rows, k) ==
  LET n == nextInsert(rows, k) IN
  reprocessRun' = IF n = 0 THEN NotRunning(reprocessRun.runs + 1)
                  ELSE [pc |-> "insertPositions", rows |-> rows, at |-> n,
                        runs |-> reprocessRun.runs]

\* The script starts and its select returns the unparsed rows.
reprocessFetch ==
  /\ reprocessRun.pc = "idle"
  /\ reprocessRun.runs < MaxRuns
  /\ reprocessLoop(selectUnparsed(Len(tracker_packets_raw)), 1)
  /\ UNCHANGED <<input, returned, imei, imeiAccepted, destroyed, out, handlers,
                 tracker_devices, tracker_packets_raw, tracker_positions>>

\* The select returns an error: the script exits.
reprocessFetchFail ==
  /\ reprocessRun.pc = "idle"
  /\ reprocessRun.runs < MaxRuns
  /\ reprocessRun' = NotRunning(reprocessRun.runs + 1)
  /\ UNCHANGED <<input, returned, imei, imeiAccepted, destroyed, out, handlers,
                 tracker_devices, tracker_packets_raw, tracker_positions>>

\* savePositions(row.imei, records, row.id): the insert returns without error.
reprocessInsertOk ==
  LET id == reprocessRun.rows[reprocessRun.at] IN
  /\ reprocessRun.pc = "insertPositions"
  /\ tracker_positions' = tracker_positions \o
        positionRows(tracker_packets_raw[id].imei,
                     reparsedOf[tracker_packets_raw[id].chunk].records, id)
  /\ reprocessRun' = [reprocessRun EXCEPT !.pc = "markParsed"]
  /\ UNCHANGED <<input, returned, imei, imeiAccepted, destroyed, out, handlers,
                 tracker_devices, tracker_packets_raw>>

\* The insert returns posError: the catch of the loop counts the row as failed.
reprocessInsertFail ==
  /\ reprocessRun.pc = "insertPositions"
  /\ reprocessLoop(reprocessRun.rows, reprocessRun.at + 1)
  /\ UNCHANGED <<input, returned, imei, imeiAccepted, destroyed, out, handlers,
                 tracker_devices, tracker_packets_raw, tracker_positions>>

\* The update of parsed returns without error.
reprocessMarkParsedOk ==
  /\ reprocessRun.pc = "markParsed"
  /\ tracker_packets_raw' =
       [tracker_packets_raw EXCEPT ![reprocessRun.rows[reprocessRun.at]].parsed = TRUE]
  /\ reprocessLoop(reprocessRun.rows, reprocessRun.at + 1)
  /\ UNCHANGED <<input, returned, imei, imeiAccepted, destroyed, out, handlers,
                 tracker_devices, tracker_positions>>

\* The update returns markError.
reprocessMarkParsedFail ==
  /\ reprocessRun.pc = "markParsed"
  /\ reprocessLoop(reprocessRun.rows, reprocessRun.at + 1)
  /\ UNCHANGED <<input, returned, imei, imeiAccepted, destroyed, out, handlers,
                 tracker_devices, tracker_packets_raw, tracker_positions>>

\* The live server and the reprocess script on the same tables.
ReprocessNext ==
  \/ Next
  \/ reprocessFetch
  \/ reprocessFetchFail
  \/ reprocessInsertOk
  \/ reprocessInsertFail
  \/ reprocessMarkParsedOk
  \/ reprocessMarkParsedFail

ReprocessSpec == Init /\ [][ReprocessNext]_vars

\* ------------------------------------------------ direct calls of the codec
\* The functions teltonika.ts exports, called on their own: input is the
\* argument, returned maps the name of each function called so far to what it
\* returned.

\* buf.readUInt32BE(offset), as the device reads an acknowledgement.
readUInt32BE(buf, offset) ==
  buf[offset + 1] * 16777216 + buf[offset + 2] * 65536 + buf[offset + 3] * 256 + buf[offset + 4]

\* Buffer.from(AVL_SAMPLE_HEX, "hex"): the one-record Codec 8 sample frame.
AvlSample ==
  <<0, 0, 0, 0, 0, 0, 0, 54, 8, 1,
    0, 0, 1, 107, 64, 216, 234, 48, 1, 0, 0, 0, 0, 0, 0, 0, 0, 0, 0, 0, 0, 0, 0, 0,
    1, 5, 2, 21, 3, 1, 1, 1, 66, 94, 15, 1, 241, 0, 0, 96, 26, 1, 78, 0, 0, 0, 0, 0, 0, 0, 0,
    1, 0, 0, 199, 207>>

\* Identity frames: a length prefix declaring n, followed by m digits of which
\* the p-th (if any) is replaced by the byte b.
digitAt(i) == 48 + ((7 * i) % 10)

identityFrame(n, m, p, b) ==
  <<n \div 256, n % 256>> \o [i \in 1..m |-> IF i = p THEN b ELSE digitAt(i)]

\* '/' and ':' (the neighbours of the digits), 'A', and '1' with the top bit set.
NonDigits == {47, 58, 65, 177}

IdentityBuffers ==
  {identityFrame(n, m, 0, 0) : n \in 14..18, m \in 13..19}
    \cup {identityFrame(n, m, p, b) : n \in 15..17, m \in 14..18, p \in 1..18, b \in NonDigits}
    \cup {identityFrame(256 + n, n, 0, 0) : n \in 15..17}
    \cup {<<>>, <<0>>, <<15>>}

\* The sample frame and every prefix of it.
SampleBuffers == {SubSeq(AvlSample, 1, len) : len \in 0..Len(AvlSample)}

\* The record counts an acknowledgement is built for.
RecordCounts == 0..255

\* Bounds of the data frames built as arguments: records encoded in a frame,
\* elements in a group of an IO trailer, declared length of a variable-length
\* element, bytes cut from the end of the frame.
MaxRecords == 2
MaxIoCount == 1
MaxVarLen == 1
MaxDrop == 12

\* The records a device reports: the record of the sample frame, and one with
\* a negative longitude and altitude.
RecordA ==
  [ timestamp |-> <<0, 363, 16600, 59952>>, priority |-> 1, longitude |-> 0,
    latitude |-> 0, altitude |-> 0, angle |-> 0, satellites |-> 0, speed |-> 0 ]
RecordB ==
  [ timestamp |-> <<0, 363, 16601, 1000>>, priority |-> 2, longitude |-> -253227000,
    latitude |-> 546871990, altitude |-> -200, angle |-> 270, satellites |-> 8,
    speed |-> 60 ]
recordAt(k) == IF k % 2 = 1 THEN RecordA ELSE RecordB

\* The device's encoding of a record (the layout of the header comment of
\* teltonika.ts): big-endian, two's complement.
uint16Bytes(x) == <<x \div 256, x % 256>>
int16Bytes(x) == uint16Bytes(x % 65536)
int32Bytes(x) == <<(x \div 16777216) % 256, (x \div 65536) % 256, (x \div 256) % 256, x % 256>>

encodeRecord(r) ==
  uint16Bytes(r.timestamp[1]) \o uint16Bytes(r.timestamp[2]) \o
  uint16Bytes(r.timestamp[3]) \o uint16Bytes(r.timestamp[4]) \o
  <<r.priority>> \o int32Bytes(r.longitude) \o int32Bytes(r.latitude) \o
  int16Bytes(r.altitude) \o uint16Bytes(r.angle) \o <<r.satellites>> \o
  uint16Bytes(r.speed)

\* An IO trailer is described by the counts of its four fixed-width groups,
\* the declared lengths of its variable-length elements (Extended only), and
\* whether its first count is overwritten with 255 (a count that points past
\* the end of the buffer).  Identifiers and values are bytes 255.
ioGroup(count, idWidth, valueWidth) == [i \in 1..(count * (idWidth + valueWidth)) |-> 255]

RECURSIVE ioVariable(_, _)
ioVariable(varLens, i) ==
  IF i > Len(varLens) THEN <<>>
  ELSE <<255, 255>> \o uint16Bytes(varLens[i]) \o [j \in 1..varLens[i] |-> 255]
         \o ioVariable(varLens, i + 1)

encodeIo(codecId, t) ==
  LET n == t.counts
      total == n[1] + n[2] + n[3] + n[4] + Len(t.varLens)
      first == IF t.inflated THEN 255 ELSE n[1]
  IN  IF codecId = 142
      THEN <<0, 1>> \o uint16Bytes(total)
             \o uint16Bytes(first) \o ioGroup(n[1], 2, 1)
             \o uint16Bytes(n[2]) \o ioGroup(n[2], 2, 2)
             \o uint16Bytes(n[3]) \o ioGroup(n[3], 2, 4)
             \o uint16Bytes(n[4]) \o ioGroup(n[4], 2, 8)
             \o uint16Bytes(Len(t.varLens)) \o ioVariable(t.varLens, 1)
      ELSE <<1, total>>
             \o <<first>> \o ioGroup(n[1], 1, 1)
             \o <<n[2]>> \o ioGroup(n[2], 1, 2)
             \o <<n[3]>> \o ioGroup(n[3], 1, 4)
             \o <<n[4]>> \o ioGroup(n[4], 1, 8)

RECURSIVE encodeRecords(_, _, _)
encodeRecords(codecId, trailers, k) ==
  IF k > Len(trailers) THEN <<>>
  ELSE encodeRecord(recordAt(k)) \o encodeIo(codecId, trailers[k])
         \o encodeRecords(codecId, trailers, k + 1)

\* Preamble, data length, codec id, number of data, the records, number of
\* data again, CRC.
encodeFrame(codecId, declared, trailers) ==
  LET body == encodeRecords(codecId, trailers, 1) IN
  <<0, 0, 0, 0, 0, 0, 0, (Len(body) + 3) % 256, codecId, declared>>
    \o body \o <<declared, 0, 0, 199, 207>>

trailer(counts, varLens, inflated) ==
  [counts |-> counts, varLens |-> varLens, inflated |-> inflated]

RECURSIVE seqsUpTo(_, _)
seqsUpTo(S, n) ==
  IF n = 0 THEN {<<>>}
  ELSE LET shorter == seqsUpTo(S, n - 1) IN
       shorter \cup {Append(q, x) : q \in shorter, x \in S}

\* Every trailer within the bounds.
Trailers(codecId) ==
  {trailer(counts, varLens, FALSE) :
     counts \in [1..4 -> 0..MaxIoCount],
     varLens \in IF codecId = 142 THEN seqsUpTo(0..MaxVarLen, MaxIoCount) ELSE {<<>>}}

\* The trailers of the frames that are cut: empty, full, and empty with an
\* inflated count.
emptyTrailer == trailer([g \in 1..4 |-> 0], <<>>, FALSE)
fullTrailer(codecId) ==
  trailer([g \in 1..4 |-> MaxIoCount],
          IF codecId = 142 THEN [i \in 1..MaxIoCount |-> MaxVarLen] ELSE <<>>, FALSE)
inflatedTrailer == trailer([g \in 1..4 |-> 0], <<>>, TRUE)

frameInput(codecId, declared, trailers, drop) ==
  LET frame == encodeFrame(codecId, declared, trailers) IN
  [ kind |-> "frame", codecId |-> codecId, declared |-> declared, trailers |-> trailers,
    drop |-> drop, buf |-> SubSeq(frame, 1, Len(frame) - drop) ]

CodecIds == {8, 142}

FrameInputs ==
  {frameInput(codecId, declared, trailers, drop) :
     codecId \in CodecIds, declared \in 0..(MaxRecords + 1), drop \in 0..MaxDrop,
     trailers \in UNION {seqsUpTo({emptyTrailer, fullTrailer(id), inflatedTrailer}, MaxRecords)
                           : id \in CodecIds}}
    \cup UNION {{frameInput(codecId, 2, <<t, emptyTrailer>>, 0) : t \in Trailers(codecId)}
                  : codecId \in CodecIds}

Inputs ==
  {[kind |-> "buffer", buf |-> b] : b \in IdentityBuffers \cup SampleBuffers}
    \cup FrameInputs
    \cup {[kind |-> "recordCount", recordCount |-> n] : n \in RecordCounts}

called(fn) == fn \in DOMAIN returned
return(fn, value) == returned' = returned @@ (fn :> value)

serverVars == <<imei, imeiAccepted, destroyed, out, handlers,
                tracker_devices, tracker_packets_raw, tracker_positions, reprocessRun>>

callParseImeiPacket ==
  /\ input.kind \in {"buffer", "frame"}
  /\ ~called("parseImeiPacket")
  /\ return("parseImeiPacket", parseImeiPacket(input.buf))
  /\ UNCHANGED <<input, serverVars>>

callExtractAvlRecordCount ==
  /\ input.kind \in {"buffer", "frame"}
  /\ ~called("extractAvlRecordCount")
  /\ return("extractAvlRecordCount", extractAvlRecordCount(input.buf))
  /\ UNCHANGED <<input, serverVars>>

callParseAvlPacket ==
  /\ input.kind \in {"buffer", "frame"}
  /\ ~called("parseAvlPacket")
  /\ return("parseAvlPacket", parseAvlPacket(input.buf))
  /\ UNCHANGED <<input, serverVars>>

callBuildAck ==
  /\ input.kind = "recordCount"
  /\ ~called("buildAck")
  /\ return("buildAck", buildAck(input.recordCount))
  /\ UNCHANGED <<input, serverVars>>

\* The call of lines 125-127, for the first record of a frame that holds its
\* fixed fields: skipCodec8Io or skipCodec8ExtendedIo at the record's trailer.
FirstTrailerOffset == 34

callSkipIo ==
  /\ input.kind = "frame"
  /\ Len(input.buf) >= FirstTrailerOffset
  /\ input.buf[10] > 0
  /\ ~called("skipIo")
  /\ return("skipIo", IF input.buf[9] = 142
                      THEN skipCodec8ExtendedIo(input.buf, FirstTrailerOffset)
                      ELSE skipCodec8Io(input.buf, FirstTrailerOffset))
  /\ UNCHANGED <<input, serverVars>>

CodecInit ==
  Listening /\ input \in Inputs /\ returned = NoResult /\ reprocessRun = NotRunning(0)

CodecNext ==
  \/ callParseImeiPacket
  \/ callExtractAvlRecordCount
  \/ callParseAvlPacket
  \/ callBuildAck
  \/ callSkipIo

CodecSpec == CodecInit /\ [][CodecNext]_vars

\* ------------------------------------------------------------------ claims
\* The 4-byte acknowledgements connection c wrote, and what handler <<c, i>>
\* wrote: positions in out[c].
AckWrites(c) == {k \in DOMAIN out[c] : Len(out[c][k].bytes) = 4}
WritesOf(c, i) == {k \in DOMAIN out[c] : out[c][k].h = i}

\* C1: every acknowledgement on the transport belongs to a chunk whose raw
\* bytes saveRawPacket has already stored, under the connection's identity.
C1_RawBeforeAck ==
  \A c \in Conns : \A k \in AckWrites(c) :
    LET hd == handlers[c][out[c][k].h] IN
    /\ hd.rawPacketId \in DOMAIN tracker_packets_raw
    /\ packet_hex(tracker_packets_raw[hd.rawPacketId]) = hexOf[hd.chunk]
    /\ tracker_packets_raw[hd.rawPacketId].imei = imei[c]

\* An acknowledgement has been written for a stored chunk.
C1_Witness ==
  \E c \in Conns : \E k \in AckWrites(c) : handlers[c][out[c][k].h].rawPacketId > 0

\* C2: a chunk whose saveRawPacket failed is not acknowledged, not decoded,
\* not handed to savePositions, and its socket is destroyed.
C2_RawFailureAborts ==
  \A c \in Conns : \A i \in DOMAIN handlers[c] :
    LET hd == handlers[c][i] IN
    hd.outcome = "saveRawPacketFailed" =>
      /\ WritesOf(c, i) = {}
      /\ ~hd.decoded
      /\ ~hd.savePositionsCalled
      /\ hd.rawPacketId = 0
      /\ hd.pc = "done"
      /\ destroyed[c]

\* saveRawPacket failed for a chunk received in the streaming phase.
C2_Witness ==
  \E c \in Conns : \E i \in DOMAIN handlers[c] : handlers[c][i].outcome = "saveRawPacketFailed"

\* C3: an acknowledgement carries byte 9 of its chunk (0 for a chunk shorter
\* than 10 bytes) as a big-endian uint32, whatever the decoder returned.
C3_AckIsDeclaredCount ==
  \A c \in Conns : \A k \in AckWrites(c) :
    LET buf == Frames[handlers[c][out[c][k].h].chunk] IN
    out[c][k].bytes = <<0, 0, 0, IF Len(buf) < 10 THEN 0 ELSE buf[10]>>

\* Acknowledged on one connection: a frame that decodes to fewer records than
\* it declares, and a frame that decodes to none.
C3_Witness ==
  \E c \in Conns : \E k1, k2 \in AckWrites(c) :
    LET c1 == handlers[c][out[c][k1].h].chunk
        c2 == handlers[c][out[c][k2].h].chunk
    IN  /\ Len(avlOf[c1].records) > 0
        /\ Len(avlOf[c1].records) < Frames[c1][10]
        /\ Len(avlOf[c2].records) = 0

\* C4: a connection on which no chunk was a valid identity frame is not in the
\* streaming phase, has no identity and was sent no acknowledgement.
C4_NoIdentityNoStreaming ==
  \A c \in Conns :
    (\A i \in DOMAIN handlers[c] : imeiOf[handlers[c][i].chunk] = NULL) =>
      /\ ~imeiAccepted[c]
      /\ imei[c] = NULL
      /\ AckWrites(c) = {}

\* A connection received a chunk, and none it received is an identity frame.
C4_Witness ==
  \E c \in Conns :
    /\ Len(handlers[c]) > 0
    /\ \A i \in DOMAIN handlers[c] : imeiOf[handlers[c][i].chunk] = NULL

\* C5: imeiAccepted never goes back to false, imei never changes once set,
\* and imeiAccepted implies that imei is set.
C5_StateMonotonic ==
  /\ [](\A c \in Conns : imeiAccepted[c] => imei[c] # NULL)
  /\ [][\A c \in Conns : /\ imeiAccepted[c] => imeiAccepted'[c]
                         /\ imei[c] # NULL => imei'[c] = imei[c]]_vars

\* A streaming connection was sent a second, different identity frame, and its
\* handler has returned.
C5_Witness ==
  \E c \in Conns : \E i \in DOMAIN handlers[c] :
    /\ i > 1
    /\ imeiAccepted[c]
    /\ imeiOf[handlers[c][i].chunk] \notin {NULL, imei[c]}
    /\ handlers[c][i].pc = "done"

\* C6: the handler that rejects an identity frame writes the single byte 0x00
\* and destroys the socket; it is the only handler the connection ever runs,
\* it awaits no collaborator, and the connection state stays as constructed.
C6_RejectionIsTerminal ==
  \A c \in Conns : \A i \in DOMAIN handlers[c] :
    LET hd == handlers[c][i] IN
    hd.outcome = "rejected" =>
      /\ out[c] = <<[h |-> i, bytes |-> <<0>>]>>
      /\ destroyed[c]
      /\ handlers[c] = <<hd>>
      /\ hd.pc = "done" /\ hd.rawPacketId = 0 /\ ~hd.savePositionsCalled
      /\ ~imeiAccepted[c] /\ imei[c] = NULL
      /\ \A r \in DOMAIN tracker_packets_raw : tracker_packets_raw[r].remote_ip # c

\* A connection rejected its first chunk while the server went on to serve a
\* chunk of another connection.
C6_Witness ==
  \E c \in Conns :
    /\ Len(handlers[c]) > 0
    /\ handlers[c][1].outcome = "rejected"
    /\ \E d \in Conns : d > c /\ Len(handlers[d]) > 0

\* A handler that took the handshake branch with a valid identity frame.
IsHandshake(hd) == hd.pc = "upsertDevice" \/ hd.outcome \in {"accepted", "upsertDeviceFailed"}

\* C7: a valid identity frame received in the handshake phase sets imei and
\* imeiAccepted, calls upsertDevice, and once its handler has returned the
\* single byte 0x01 has been written for it; it is never handled as data.
C7_IdentityAccepted ==
  \A c \in Conns : \A i \in DOMAIN handlers[c] :
    LET hd == handlers[c][i] IN
    IsHandshake(hd) =>
      /\ imei[c] = imeiOf[hd.chunk]
      /\ imeiAccepted[c]
      /\ hd.rawPacketId = 0 /\ ~hd.decoded /\ ~hd.savePositionsCalled
      /\ \A k \in WritesOf(c, i) : out[c][k].bytes = <<1>>
      /\ hd.pc = "done" => Cardinality(WritesOf(c, i)) = 1

\* C8: when upsertDevice fails, the byte 0x01 is still written for the
\* identity frame.
C8_AcceptDespiteRegistrationFailure ==
  \A c \in Conns : \A i \in DOMAIN handlers[c] :
    handlers[c][i].outcome = "upsertDeviceFailed" =>
      \E k \in WritesOf(c, i) : out[c][k].bytes = <<1>>

\* C9: a handler whose savePositions failed does not destroy the socket.
C9_RecordFailureNonFatal ==
  \A c \in Conns : \A i \in DOMAIN handlers[c] :
    handlers[c][i].outcome = "savePositionsFailed" =>
      ~handlers[c][i].destroyRequested /\ ~destroyed[c]

\* C10: on each connection at most one handler invocation is in progress.
C10_SequentialChunks ==
  \A c \in Conns : Cardinality({i \in DOMAIN handlers[c] : handlers[c][i].pc # "done"}) <= 1

\* C11: parseAvlPacket raises for no buffer, and returns no more records than
\* the buffer declares.
C11_DecodingNeverRaises ==
  called("parseAvlPacket") =>
    /\ ~returned.parseAvlPacket.threw
    /\ Len(returned.parseAvlPacket.records) <= (IF Len(input.buf) < 10 THEN 0 ELSE input.buf[10])

\* A chunk with a codec id other than 0x08 and 0x8E, long enough to carry one.
UnsupportedCodec(chunk) == Len(Frames[chunk]) >= 10 /\ Frames[chunk][9] \notin {8, 142}

C13_IdentityDecoding ==
  called("parseImeiPacket") =>
    LET buf == input.buf
        got == returned.parseImeiPacket
        n == buf[1] * 256 + buf[2]
        allDigits == \A i \in 3..(2 + n) : buf[i] >= 48 /\ buf[i] <= 57
    IN  IF Len(buf) < 2 THEN got = NULL
        ELSE IF Len(buf) < 2 + n THEN got = NULL
        ELSE IF n >= 15 /\ n <= 17 /\ allDigits THEN got = SubSeq(buf, 3, 2 + n)
        ELSE IF n \in {14, 18} \/ ~allDigits THEN got = NULL
        ELSE TRUE

\* C14: buildAck(count) is 4 bytes that read back, as a big-endian unsigned
\* 32-bit integer, as count, for every count in 0..255.
C14_AckRoundTrip ==
  called("buildAck") =>
    /\ Len(returned.buildAck) = 4
    /\ \A i \in 1..4 : returned.buildAck[i] \in 0..255
    /\ readUInt32BE(returned.buildAck, 0) = input.recordCount

\* buildAck was called with the largest count.
C14_Witness == called("buildAck") /\ input.recordCount = 255

\* The offset after the k-th record of a built frame, and the number of
\* records that lie in the buffer with their whole trailer.
RECURSIVE recordEnd(_, _, _)
recordEnd(codecId, trailers, k) ==
  IF k = 0 THEN 10
  ELSE recordEnd(codecId, trailers, k - 1) + 24 + Len(encodeIo(codecId, trailers[k]))

completeRecords(in) ==
  Cardinality({k \in 1..Len(in.trailers) : recordEnd(in.codecId, in.trailers, k) <= Len(in.buf)})

noneInflated(in) == \A k \in 1..Len(in.trailers) : ~in.trailers[k].inflated

\* C15: for a frame that declares more records than its buffer holds complete,
\* parseAvlPacket returns fewer records than declared, and
\* extractAvlRecordCount returns the declared count.
C15_Truncation ==
  ( /\ input.kind = "frame"
    /\ called("parseAvlPacket") /\ called("extractAvlRecordCount")
    /\ Len(input.buf) >= 10
    /\ noneInflated(input)
    /\ input.declared > completeRecords(input) ) =>
      /\ ~returned.parseAvlPacket.threw
      /\ Len(returned.parseAvlPacket.records) < input.declared
      /\ returned.extractAvlRecordCount = input.declared

\* C16: what a connection wrote is the single byte 0x00, or the byte 0x01
\* followed by 4-byte acknowledgements only.
C16_HandshakeThenAcks ==
  \A c \in Conns :
    LET w == out[c] IN
    Len(w) > 0 =>
      \/ Len(w) = 1 /\ w[1].bytes = <<0>>
      \/ w[1].bytes = <<1>> /\ \A k \in 2..Len(w) : Len(w[k].bytes) = 4

\* The rows of tracker_positions that refer to raw packet id.
PositionsOf(id) == {p \in DOMAIN tracker_positions : tracker_positions[p].raw_packet_id = id}

valueWidth == <<1, 2, 4, 8>>

RECURSIVE sumGroups(_, _, _)
sumGroups(counts, idWidth, g) ==
  IF g > 4 THEN 0
  ELSE idWidth + counts[g] * (idWidth + valueWidth[g]) + sumGroups(counts, idWidth, g + 1)

RECURSIVE sumVariable(_, _)
sumVariable(varLens, i) ==
  IF i > Len(varLens) THEN 0 ELSE 2 + 2 + varLens[i] + sumVariable(varLens, i + 1)

ioWidth(codecId, t) ==
  IF codecId = 142 THEN 4 + sumGroups(t.counts, 2, 1) + 2 + sumVariable(t.varLens, 1)
  ELSE 2 + sumGroups(t.counts, 1, 1)

\* C18: on a frame that holds its first record's trailer, the skip of that
\* trailer returns its offset plus the width of the trailer's tables, and the
\* second record is decoded from the bytes at that offset.
C18_IoTraversal ==
  ( /\ input.kind = "frame"
    /\ input.drop = 0
    /\ input.declared >= 1
    /\ Len(input.trailers) >= 1
    /\ ~input.trailers[1].inflated ) =>
      /\ called("skipIo") =>
           returned.skipIo = FirstTrailerOffset + ioWidth(input.codecId, input.trailers[1])
      /\ (called("parseAvlPacket") /\ input.declared >= 2 /\ Len(input.trailers) >= 2) =>
           /\ Len(returned.parseAvlPacket.records) >= 2
           /\ returned.parseAvlPacket.records[2] = recordAt(2)
           /\ AvlRecord(input.buf, FirstTrailerOffset + ioWidth(input.codecId, input.trailers[1]))
                = recordAt(2)

\* Both functions were called on a two-record Extended frame whose first
\* trailer has an element in every group.
C18_Witness ==
  /\ input.kind = "frame"
  /\ input.drop = 0 /\ input.declared = 2 /\ Len(input.trailers) = 2
  /\ called("skipIo") /\ called("parseAvlPacket")
  /\ \A g \in 1..4 : input.trailers[1].counts[g] > 0
  /\ input.codecId = 142
  /\ \E i \in DOMAIN input.trailers[1].varLens : input.trailers[1].varLens[i] > 0

\* A built frame whose buffer holds the records it declares, with their
\* trailers.
wellFormed(in) ==
  /\ in.kind = "frame"
  /\ in.declared <= Len(in.trailers)
  /\ \A k \in 1..in.declared : ~in.trailers[k].inflated
  /\ recordEnd(in.codecId, in.trailers, in.declared) <= Len(in.buf)

\* C19: parseAvlPacket returns no more records than the buffer declares; for a
\* frame that holds its n declared records it returns exactly those n records
\* in order; the sample frame declares 1 record and decodes to 1 record.
C19_WellFormedDecodes ==
  called("parseAvlPacket") =>
    LET got == returned.parseAvlPacket IN
    /\ Len(got.records) <= (IF Len(input.buf) < 10 THEN 0 ELSE input.buf[10])
    /\ wellFormed(input) =>
         /\ ~got.threw
         /\ got.records = [k \in 1..input.declared |-> recordAt(k)]
    /\ input.buf = AvlSample =>
         /\ ~got.threw
         /\ got.records = <<RecordA>>
         /\ called("extractAvlRecordCount") => returned.extractAvlRecordCount = 1

\* parseAvlPacket was called on a frame that holds the largest number of
\* records, of both kinds, with filled trailers.
C19_Witness ==
  /\ called("parseAvlPacket")
  /\ wellFormed(input)
  /\ input.declared = MaxRecords
  /\ \A k \in 1..input.declared : input.trailers[k].counts[4] > 0

\* C20: the acknowledgements of a connection are written in the order in
\* which their chunks arrived.
C20_AcksInArrivalOrder ==
  \A c \in Conns : \A k1, k2 \in AckWrites(c) : k1 < k2 => out[c][k1].h < out[c][k2].h

\* C21: once socket.destroy() was called on a connection, nothing more is
\* written to its transport, no new handler runs for it, and no handler of it
\* calls savePositions.
C21_NothingAfterClosure ==
  [][\A c \in Conns :
       destroyed[c] =>
         /\ out'[c] = out[c]
         /\ Len(handlers'[c]) = Len(handlers[c])
         /\ \A i \in DOMAIN handlers[c] :
              handlers'[c][i].savePositionsCalled = handlers[c][i].savePositionsCalled]_vars

\* C22: a streaming chunk that saveRawPacket has stored is eventually
\* acknowledged on the transport.
C22_StoredIsAcknowledged ==
  \A c \in Conns : \A i \in 1..MaxChunks :
    (i \in DOMAIN handlers[c] /\ handlers[c][i].rawPacketId > 0)
      ~> (\E k \in WritesOf(c, i) : Len(out[c][k].bytes) = 4)

\* C23: the rows a reprocess run works on were unparsed when it fetched them;
\* a raw packet marked parsed has positions; and the positions of a raw packet
\* are inserted at most once, whatever the server and the reprocess runs do.
C23_ReprocessSafe ==
  /\ [](\A id \in DOMAIN tracker_packets_raw :
          /\ tracker_packets_raw[id].parsed => PositionsOf(id) # {}
          /\ Cardinality(PositionsOf(id))
               <= Len(reparsedOf[tracker_packets_raw[id].chunk].records))
  /\ [][reprocessRun.pc = "idle" =>
          \A k \in DOMAIN reprocessRun'.rows :
            ~tracker_packets_raw[reprocessRun'.rows[k]].parsed]_vars

=============================================================================
